---------------------------- MODULE Spec2Model ----------------------------
(***************************************************************************)
(* FoxgloveSocket (src/src/FoxgloveRos.ts): the session that translates    *)
(* the roslib verbs (advertise, unadvertise, publish, subscribe,           *)
(* unsubscribe, call_service) into commands of a FoxgloveClient transport  *)
(* and correlates the transport's events back to the roslib emitter.       *)
(*                                                                         *)
(* JavaScript runs one job at a time.  A verb (send) and a transport event *)
(* run to completion; an `await` or a `.then` continues in a microtask.    *)
(* The microtask queue mq is FIFO and is drained before the next task: a   *)
(* transport event is delivered as a task of its own (the WebSocket's      *)
(* message event), when mq is empty.  The caller issues verbs from tasks   *)
(* of its own, or from a task in which the session called it back (an      *)
(* emission to the roslib emitter), and then at any point between two      *)
(* microtasks of that task; callerTask says whether the running task is    *)
(* one of these.                                                           *)
(***************************************************************************)
EXTENDS Integers, Sequences, FiniteSets, TLC

\* ------------------------------------------------------------- bounds
MaxVerbs == 3
MaxEvents == 3
\* call_service verbs and peer events of the specification of service calls
MaxCalls == 2
MaxCallEvents == 3
\* verbs and peer events of the specification of lookups
MaxLookups == 2
MaxLookupEvents == 3
\* peer events of the specification of the directory
MaxDirEvents == 3
\* list-topics calls of the specification of list-topics
MaxTopicCalls == 2
\* get-param calls and peer events of the specification of get-param
MaxParamCalls == 3
MaxParamEvents == 3
MaxLifeVerbs == 2
MaxLifeEvents == 3

\* ------------------------------------------------------------- inputs
Topics == {"/a", "/b"}
ChannelIds == {1, 2}
SchemaNames == {"pkg/A", "pkg/B"}
Msgs == {"m1", "m2"}
Bytes == {"d1", "d2"}

\* What a descriptor holds as schema text: a string, a value that is not a
\* string, or no such key at all.
SchemaKinds == {"text", "null", "absent"}

\* A Channel of the transport.
Channels == [id : ChannelIds, topic : Topics, schemaName : SchemaNames, schema : SchemaKinds]
NoChannel == [id |-> 0, topic |-> "", schemaName |-> "", schema |-> "absent"]

\* The channel arrays a peer `advertise` event may carry: one channel, or
\* two channels with the ids 1 and 2 in that order.
AdvertiseBatches ==
    {<<c>> : c \in {x \in Channels : x.schemaName = "pkg/A" \/ x.schema = "text"}}
    \cup {<<c, d>> : c \in {x \in Channels : x.id = 1 /\ x.schemaName = "pkg/A" /\ x.schema = "text"},
                     d \in {x \in Channels : x.id = 2 /\ x.schemaName = "pkg/B" /\ x.schema = "text"}}

\* The id arrays a peer `unadvertise` event may carry.
UnadvertiseBatches == {<<i>> : i \in ChannelIds} \cup {<<1, 2>>}

\* A Service of the transport: request and response say whether the request
\* and the response schema text is a string.
ServiceIds == {1, 2}
ServiceNames == {"/s", "/r"}
ServiceTypes == {"pkg/S", "pkg/T"}
Services == [id : ServiceIds, name : ServiceNames, type : ServiceTypes,
             request : {"text", "absent"}, response : {"text", "absent"}]
NoService == [id |-> 0, name |-> "", type |-> "", request |-> "absent",
              response |-> "absent"]

\* The `type` of a call_service verb: the six built-in pseudo-services, an
\* introspection type without a handler, and a type outside 'rosapi/'.
RosapiTypes == {"rosapi/GetParam", "rosapi/SetParam", "rosapi/Topics",
                "rosapi/Services", "rosapi/TopicType", "rosapi/ServiceType",
                "rosapi/Nodes"}
CallTypes == RosapiTypes \cup {"pkg/S"}

\* Parameter names, as sequences of characters.
ParamNames == {<<"n", ":", "p">>, <<"n", ":", "p", ":", "q">>, <<"n", "p">>}
EventParamNames == {<<"n", ".", "p">>, <<"n", ".", "p", ":", "q">>, <<"n", "p">>}

\* JSON values, and JSON texts (quoted: the text stands between double quotes).
JsonValues == {[t |-> "bool", v |-> "true"], [t |-> "num", v |-> "1"],
               [t |-> "str", v |-> "x"]}
JsonTexts == {[quoted |-> FALSE, text |-> "true"], [quoted |-> FALSE, text |-> "1"],
              [quoted |-> TRUE, text |-> "x"], [quoted |-> FALSE, text |-> "x"]}
NoJsonText == [quoted |-> FALSE, text |-> ""]

\* The args of a call_service verb: each handler reads its own fields.
NoArgs == [name |-> <<>>, value |-> NoJsonText, topic |-> "", service |-> "",
           request |-> ""]

\* ------------------------------------------------------------- state
VARIABLES
    channelsById,       \* #channelsById: id -> Channel
    channelsByName,     \* #channelsByName: Map in insertion order, as a sequence of Channels keyed by topic
    messageReaders,     \* #messageReaders: schema name -> compiled instance
    messageWriters,     \* #messageWriters: schema name -> compiled instance
    unadvertiseByName,  \* #unadvertiseByName: topic -> publisherId captured by the closure
    publishByName,      \* #publishByName: topic -> index in advs of the publish promise
    unsubscribeByName,  \* #unsubscribeByName: topic -> index in subs of the closure's subscription
    advs,               \* one record per #advertise call (its publish promise)
    pubs,               \* one record per #publish call
    subs,               \* one record per #subscribe call
    advertiseListeners, \* listeners of #getChannel on the client's 'advertise' event, in order
    messageListeners,   \* listeners on the client's 'message' event, in order (indices in subs)
    mq,                 \* the microtask queue
    callerTask,         \* whether code of the caller runs in the current task
    wanted,             \* history: topic -> whether the caller's last subscribe / unsubscribe of it was a subscribe
    lastEvent,          \* history: the transport event delivered last
    advertisedChannels, \* history: the channels the peer has advertised so far
    live,               \* history: <<kind, id, name>> of what the peer advertises now
    justUnsubscribed,   \* history: the topic the last steps unsubscribed, and how often in a row
    isConnected,        \* #ros.isConnected
    lifecycle,          \* 'connection', 'close' and 'error' emissions to the roslib emitter, in order
    nextPublisherId,    \* FoxgloveClient: next id returned by advertise
    nextSubscriptionId, \* FoxgloveClient: next id returned by subscribe
    cmds,               \* commands issued to the client: advertise, unadvertise, subscribe, unsubscribe
    sendMessages,       \* sendMessage commands issued to the client
    emitted,            \* emissions of decoded messages to the roslib emitter
    thrown,             \* 'schema not found' errors raised, with the place that raised them
    servicesById,       \* #servicesById: id -> Service
    servicesByName,     \* #servicesByName: Map in insertion order, as a sequence of Services keyed by name
    callId,             \* #callId
    calls,              \* one record per #callService call
    advertiseServicesListeners, \* listeners of #getService on 'advertiseServices', in order
    responseListeners,  \* listeners on 'serviceCallResponse', in order (indices in calls)
    failureListeners,   \* listeners on 'serviceCallFailure', in order
    parameterListeners, \* listeners on 'parameterValues', in order
    graphListeners,     \* listeners on 'connectionGraphUpdate', in order
    requests,           \* sendServiceCallRequest commands issued to the client
    paramCmds,          \* getParameters / setParameters commands issued to the client
    results,            \* result envelopes emitted to the roslib emitter under a caller's id
    nVerbs, nEvents     \* verbs and peer events so far

dirVars == <<channelsById, channelsByName>>
codecVars == <<messageReaders, messageWriters>>
pubVars == <<unadvertiseByName, publishByName, advs, pubs, nextPublisherId, sendMessages>>
subVars == <<unsubscribeByName, subs, messageListeners, nextSubscriptionId, emitted>>
ghostVars == <<wanted, lastEvent, advertisedChannels, live>>
rosVars == <<isConnected, lifecycle>>
svcVars == <<servicesById, servicesByName, callId, calls, advertiseServicesListeners,
             responseListeners, failureListeners, parameterListeners, graphListeners,
             requests, paramCmds, results>>
vars == <<servicesById, servicesByName, callId, calls, advertiseServicesListeners,
          responseListeners, failureListeners, parameterListeners, graphListeners,
          requests, paramCmds, results, channelsById, channelsByName, messageReaders, messageWriters,
          unadvertiseByName, publishByName, unsubscribeByName, advs, pubs, subs,
          advertiseListeners, messageListeners, mq, callerTask, wanted, lastEvent,
          advertisedChannels, live, justUnsubscribed, isConnected, lifecycle,
          nextPublisherId,
          nextSubscriptionId, cmds, sendMessages, emitted, thrown, nVerbs, nEvents>>

\* ------------------------------------------------------------- helpers
\* Map.set(k, v) / Map.delete(k) / Map.get(k) on a map held as a function.
MapSet(m, k, v) == [x \in DOMAIN m \cup {k} |-> IF x = k THEN v ELSE m[x]]
\* A delete that leaves the entry in the map.
MapDeleteNothing(m, k) == m
MapDelete(m, k) == [x \in DOMAIN m \ {k} |-> m[x]]
MapHas(m, k) == k \in DOMAIN m

RECURSIVE SeqRemove(_, _)
SeqRemove(s, x) ==
    IF s = <<>> THEN <<>>
    ELSE IF Head(s) = x THEN SeqRemove(Tail(s), x)
    ELSE <<Head(s)>> \o SeqRemove(Tail(s), x)

\* channelsByName.get(name): the Channel stored under name, or NoChannel.
NameGet(byName, name) ==
    IF \E i \in 1..Len(byName) : byName[i].topic = name
    THEN byName[CHOOSE i \in 1..Len(byName) : byName[i].topic = name]
    ELSE NoChannel

\* channelsByName.set(channel.topic, channel): an existing key keeps its place.
NameSet(byName, channel) ==
    IF \E i \in 1..Len(byName) : byName[i].topic = channel.topic
    THEN [i \in 1..Len(byName) |->
            IF byName[i].topic = channel.topic THEN channel ELSE byName[i]]
    ELSE Append(byName, channel)

\* channelsByName.delete(name)
NameDelete(byName, name) == SelectSeq(byName, LAMBDA c : c.topic # name)

\* A find that takes the first channel of the event whatever its name.
FindHead(channels, name) == IF channels = <<>> THEN NoChannel ELSE Head(channels)

\* channels.find((channel) => channel.topic === name)
RECURSIVE Find(_, _)
Find(channels, name) ==
    IF channels = <<>> THEN NoChannel
    ELSE IF Head(channels).topic = name THEN Head(channels)
    ELSE Find(Tail(channels), name)


\* ------------------------------------------------------------- codecs
\* The cache key of #getMessageReader / #getMessageWriter for a Channel:
\* a descriptor without a `schema` key is taken for a Service, whose `type`
\* is undefined on a Channel.
ChannelCodecName(channel) ==
    IF channel.schema = "absent" THEN "undefined" ELSE channel.schemaName

\* `typeof schema !== 'string'` for a Channel
ChannelSchemaIsString(channel) == channel.schema = "text"

\* new Ros2MessageReader(...) / new Ros2MessageWriter(...): a fresh instance
NewCodec(cache, name) == [schemaName |-> name, serial |-> Cardinality(DOMAIN cache) + 1]

\* A codec request that compiles anew whatever the cache holds.
GetCodecRecompile(cache, name, schemaIsString) ==
    IF ~schemaIsString
    THEN [threw |-> TRUE, cache |-> cache, codec |-> NewCodec(cache, name)]
    ELSE [threw |-> FALSE, cache |-> MapSet(cache, name, NewCodec(cache, name)),
          codec |-> NewCodec(cache, name)]

\* A codec request that compiles whatever the schema text is.
GetCodecUnchecked(cache, name, schemaIsString) ==
    IF MapHas(cache, name)
    THEN [threw |-> FALSE, cache |-> cache, codec |-> cache[name]]
    ELSE [threw |-> FALSE, cache |-> MapSet(cache, name, NewCodec(cache, name)),
          codec |-> NewCodec(cache, name)]

\* #getMessageReader / #getMessageWriter on one cache: the cached instance,
\* else 'schema not found', else a new instance stored under the name.
GetCodec(cache, name, schemaIsString) ==
    IF MapHas(cache, name)
    THEN [threw |-> FALSE, cache |-> cache, codec |-> cache[name]]
    ELSE IF ~schemaIsString
    THEN [threw |-> TRUE, cache |-> cache, codec |-> NewCodec(cache, name)]
    ELSE [threw |-> FALSE, cache |-> MapSet(cache, name, NewCodec(cache, name)),
          codec |-> NewCodec(cache, name)]

\* reader.readMessage(data): the value the reader of a schema decodes from bytes
ReadMessage(reader, data) == [decodedBy |-> reader.schemaName, bytes |-> data]

\* writer.writeMessage(msg): the bytes the writer of a schema encodes a value to
WriteMessage(writer, msg) == [encodedBy |-> writer.schemaName, value |-> msg]

Job(kind, idx) == [kind |-> kind, idx |-> idx]
Listener(op, idx) == [op |-> op, idx |-> idx]
Cmd(cmd, id, channelId, topic, schemaName) ==
    [cmd |-> cmd, id |-> id, channelId |-> channelId, topic |-> topic,
     schemaName |-> schemaName]
Event(kind, id, call, data, batch) ==
    [kind |-> kind, id |-> id, callId |-> call, data |-> data, batch |-> batch]
Thrown(site, verb, idx) == [site |-> site, verb |-> verb, idx |-> idx]
NoUnsubscribe == [topic |-> "", times |-> 0]

\* ------------------------------------------------------------- Init
Init ==
    /\ channelsById = <<>>
    /\ channelsByName = <<>>
    /\ messageReaders = <<>>
    /\ messageWriters = <<>>
    /\ unadvertiseByName = <<>>
    /\ publishByName = <<>>
    /\ unsubscribeByName = <<>>
    /\ advs = <<>>
    /\ pubs = <<>>
    /\ subs = <<>>
    /\ advertiseListeners = <<>>
    /\ messageListeners = <<>>
    /\ mq = <<>>
    /\ callerTask = FALSE
    /\ wanted = [t \in Topics |-> FALSE]
    /\ lastEvent = Event("none", 0, 0, "", <<>>)
    /\ advertisedChannels = {}
    /\ live = {}
    /\ justUnsubscribed = NoUnsubscribe
    /\ isConnected = FALSE
    /\ lifecycle = <<>>
    /\ nextPublisherId = 1
    /\ nextSubscriptionId = 1
    /\ cmds = <<>>
    /\ sendMessages = <<>>
    /\ emitted = <<>>
    /\ thrown = <<>>
    /\ nVerbs = 0
    /\ nEvents = 0
    /\ servicesById = <<>>
    /\ servicesByName = <<>>
    /\ callId = 0
    /\ calls = <<>>
    /\ advertiseServicesListeners = <<>>
    /\ responseListeners = <<>>
    /\ failureListeners = <<>>
    /\ parameterListeners = <<>>
    /\ graphListeners = <<>>
    /\ requests = <<>>
    /\ paramCmds = <<>>
    /\ results = <<>>

\* ------------------------------------------------------------- verbs
\* send is called from code of the caller: in a task of the caller, which
\* starts when no microtask is left, or in the task that is running if the
\* caller has code in it.
CallerRuns == mq = <<>> \/ callerTask

\* #getChannel(name), up to its first await: the channel found under the
\* name, or NoChannel when a listener has to wait for its advertisement.
GetChannelNow(name) == NameGet(channelsByName, name)

\* send({op: 'advertise', topic, type})
Advertise(topic, type) ==
    /\ CallerRuns
    /\ nVerbs < MaxVerbs
    /\ LET publisherId == nextPublisherId
           a == Len(advs) + 1
           channel == GetChannelNow(topic)
           found == channel # NoChannel
       IN /\ nextPublisherId' = nextPublisherId + 1
          /\ cmds' = Append(cmds, Cmd("advertise", publisherId, 0, topic, type))
          /\ advs' = Append(advs, [topic |-> topic, publisherId |-> publisherId,
                                   pc |-> IF found THEN "then" ELSE "waiting",
                                   channel |-> channel, writer |-> NewCodec(<<>>, ""),
                                   waiters |-> <<>>])
          /\ mq' = IF found THEN Append(mq, Job("advThen", a)) ELSE mq
          /\ advertiseListeners' =
                IF found THEN advertiseListeners
                ELSE Append(advertiseListeners, Listener("adv", a))
          /\ unadvertiseByName' = MapSet(unadvertiseByName, topic, publisherId)
          /\ publishByName' = MapSet(publishByName, topic, a)
    /\ nVerbs' = nVerbs + 1
    /\ callerTask' = TRUE
    /\ UNCHANGED ghostVars
    /\ UNCHANGED rosVars
    /\ justUnsubscribed' = NoUnsubscribe
    /\ UNCHANGED <<svcVars, dirVars, codecVars, subVars, pubs, sendMessages, thrown, nEvents>>

\* send({op: 'unadvertise', topic})
Unadvertise(topic) ==
    /\ CallerRuns
    /\ nVerbs < MaxVerbs
    /\ cmds' = IF MapHas(unadvertiseByName, topic)
               THEN Append(cmds, Cmd("unadvertise", unadvertiseByName[topic], 0, "", ""))
               ELSE cmds
    /\ unadvertiseByName' = MapDelete(unadvertiseByName, topic)
    /\ nVerbs' = nVerbs + 1
    /\ callerTask' = TRUE
    /\ UNCHANGED ghostVars
    /\ UNCHANGED rosVars
    /\ justUnsubscribed' = NoUnsubscribe
    /\ UNCHANGED <<svcVars, dirVars, codecVars, subVars, publishByName, advs, pubs,
                   nextPublisherId, sendMessages, advertiseListeners, mq, thrown, nEvents>>

\* The continuation of #publish on a promise that is still pending is queued
\* in the order the calls awaited, when the promise is fulfilled.
PublishJobsReversed(waiters) ==
    [i \in 1..Len(waiters) |-> Job("publish", waiters[Len(waiters) + 1 - i])]

\* The jobs queued when a publish promise is fulfilled: the continuations of
\* the #publish calls awaiting it, in the order they awaited.
PublishJobs(waiters) == [i \in 1..Len(waiters) |-> Job("publish", waiters[i])]

\* A #publish that does not wait for the promise it gets.
PromisePendingNever(p) == FALSE

\* `await promise`: whether the promise #publish gets is still pending (p = 0:
\* no promise is stored for the topic).
PromisePending(p) == p # 0 /\ advs[p].pc # "resolved"

\* send({op: 'publish', topic, msg}), up to its await of the publish promise:
\* a promise already fulfilled (or no promise at all) queues the continuation,
\* a pending one keeps it as a reaction.
Publish(topic, msg) ==
    /\ CallerRuns
    /\ nVerbs < MaxVerbs
    /\ LET k == Len(pubs) + 1
           p == IF MapHas(publishByName, topic) THEN publishByName[topic] ELSE 0
           pending == PromisePending(p)
       IN /\ pubs' = Append(pubs, [topic |-> topic, msg |-> msg, promise |-> p,
                                   registered |-> IF MapHas(unadvertiseByName, topic)
                                                  THEN unadvertiseByName[topic] ELSE 0,
                                   awaited |-> pending, pc |-> "await"])
          /\ advs' = IF pending
                     THEN [advs EXCEPT ![p].waiters = Append(@, k)]
                     ELSE advs
          /\ mq' = IF pending THEN mq ELSE Append(mq, Job("publish", k))
    /\ nVerbs' = nVerbs + 1
    /\ callerTask' = TRUE
    /\ UNCHANGED ghostVars
    /\ UNCHANGED rosVars
    /\ justUnsubscribed' = NoUnsubscribe
    /\ UNCHANGED <<svcVars, dirVars, codecVars, subVars, unadvertiseByName, publishByName,
                   nextPublisherId, sendMessages, advertiseListeners, cmds, thrown, nEvents>>

\* send({op: 'subscribe', topic}), up to its await of #getChannel
Subscribe(topic) ==
    /\ CallerRuns
    /\ nVerbs < MaxVerbs
    /\ LET s == Len(subs) + 1
           channel == GetChannelNow(topic)
           found == channel # NoChannel
       IN /\ subs' = Append(subs, [topic |-> topic, channel |-> channel,
                                   pc |-> IF found THEN "continue" ELSE "waiting",
                                   subscriptionId |-> 0])
          /\ mq' = IF found THEN Append(mq, Job("subscribe", s)) ELSE mq
          /\ advertiseListeners' =
                IF found THEN advertiseListeners
                ELSE Append(advertiseListeners, Listener("sub", s))
    /\ nVerbs' = nVerbs + 1
    /\ callerTask' = TRUE
    /\ wanted' = [wanted EXCEPT ![topic] = TRUE]
    /\ UNCHANGED <<lastEvent, advertisedChannels, live>>
    /\ UNCHANGED rosVars
    /\ justUnsubscribed' = NoUnsubscribe
    /\ UNCHANGED <<svcVars, dirVars, codecVars, pubVars, unsubscribeByName, messageListeners,
                   nextSubscriptionId, emitted, cmds, thrown, nEvents>>

\* send({op: 'unsubscribe', topic})
Unsubscribe(topic) ==
    /\ CallerRuns
    /\ nVerbs < MaxVerbs
    /\ IF MapHas(unsubscribeByName, topic)
       THEN /\ messageListeners' = SeqRemove(messageListeners, unsubscribeByName[topic])
            /\ cmds' = Append(cmds, Cmd("unsubscribe",
                                        subs[unsubscribeByName[topic]].subscriptionId,
                                        0, "", ""))
       ELSE UNCHANGED <<messageListeners, cmds>>
    /\ unsubscribeByName' = MapDelete(unsubscribeByName, topic)
    /\ nVerbs' = nVerbs + 1
    /\ callerTask' = TRUE
    /\ wanted' = [wanted EXCEPT ![topic] = FALSE]
    /\ UNCHANGED <<lastEvent, advertisedChannels, live>>
    /\ UNCHANGED rosVars
    /\ justUnsubscribed' =
          [topic |-> topic,
           times |-> IF justUnsubscribed.topic = topic
                     THEN justUnsubscribed.times + 1 ELSE 1]
    /\ UNCHANGED <<svcVars, dirVars, codecVars, pubVars, subs, nextSubscriptionId, emitted,
                   advertiseListeners, mq, thrown, nEvents>>

\* ------------------------------------------------------------- microtasks
\* #getChannel resumes after its await and returns the channel: the promise
\* it returned is fulfilled and the reaction of its caller is queued (the
\* .then callback of #advertise, or the rest of #subscribe).
ResumeGetChannel ==
    /\ mq # <<>>
    /\ UNCHANGED <<callerTask, ghostVars>>
    /\ UNCHANGED rosVars
    /\ justUnsubscribed' = NoUnsubscribe
    /\ Head(mq).kind \in {"getChannelAdv", "getChannelSub"}
    /\ LET i == Head(mq).idx
       IN IF Head(mq).kind = "getChannelAdv"
          THEN /\ advs' = [advs EXCEPT ![i].pc = "then"]
               /\ mq' = Append(Tail(mq), Job("advThen", i))
               /\ subs' = subs
          ELSE /\ subs' = [subs EXCEPT ![i].pc = "continue"]
               /\ mq' = Append(Tail(mq), Job("subscribe", i))
               /\ advs' = advs
    /\ UNCHANGED <<svcVars, dirVars, codecVars, unadvertiseByName, publishByName, pubs,
                   nextPublisherId, sendMessages, unsubscribeByName, messageListeners,
                   nextSubscriptionId, emitted, advertiseListeners, cmds, thrown,
                   nVerbs, nEvents>>

\* The .then callback of #advertise: compiles the writer and resolves the
\* publish promise; a 'schema not found' error rejects the derived promise
\* and leaves the publish promise pending.
AdvertiseThen ==
    /\ mq # <<>>
    /\ UNCHANGED <<callerTask, ghostVars>>
    /\ UNCHANGED rosVars
    /\ justUnsubscribed' = NoUnsubscribe
    /\ Head(mq).kind = "advThen"
    /\ LET a == Head(mq).idx
           channel == advs[a].channel
           w == GetCodec(messageWriters, ChannelCodecName(channel),
                         ChannelSchemaIsString(channel))
       IN IF w.threw
          THEN /\ advs' = [advs EXCEPT ![a].pc = "failed"]
               /\ thrown' = Append(thrown, Thrown("microtask", "advertise", a))
               /\ mq' = Tail(mq)
               /\ UNCHANGED messageWriters
          ELSE /\ messageWriters' = w.cache
               /\ advs' = [advs EXCEPT ![a].pc = "resolved", ![a].writer = w.codec,
                                       ![a].waiters = <<>>]
               /\ mq' = Tail(mq) \o PublishJobs(advs[a].waiters)
               /\ UNCHANGED thrown
    /\ UNCHANGED <<svcVars, dirVars, messageReaders, unadvertiseByName, publishByName, pubs,
                   nextPublisherId, sendMessages, subVars, advertiseListeners, cmds,
                   nVerbs, nEvents>>

\* The rest of #publish after its await: calls the function the promise was
\* fulfilled with, which sends through the publisher id of its #advertise.
PublishContinue ==
    /\ mq # <<>>
    /\ UNCHANGED <<callerTask, ghostVars>>
    /\ UNCHANGED rosVars
    /\ justUnsubscribed' = NoUnsubscribe
    /\ Head(mq).kind = "publish"
    /\ LET k == Head(mq).idx
           p == pubs[k].promise
       IN /\ pubs' = [pubs EXCEPT ![k].pc = "done"]
          /\ sendMessages' =
                IF p = 0 THEN sendMessages
                ELSE Append(sendMessages,
                            [publisherId |-> advs[p].publisherId,
                             data |-> WriteMessage(advs[p].writer, pubs[k].msg),
                             pub |-> k])
    /\ mq' = Tail(mq)
    /\ UNCHANGED <<svcVars, dirVars, codecVars, unadvertiseByName, publishByName, advs,
                   nextPublisherId, subVars, advertiseListeners, cmds, thrown,
                   nVerbs, nEvents>>

\* The rest of #subscribe after its await: subscribes to the channel's id,
\* stores the unsubscribe closure and attaches the message listener.
SubscribeContinue ==
    /\ mq # <<>>
    /\ UNCHANGED <<callerTask, ghostVars>>
    /\ UNCHANGED rosVars
    /\ justUnsubscribed' = NoUnsubscribe
    /\ Head(mq).kind = "subscribe"
    /\ LET s == Head(mq).idx
       IN /\ subs' = [subs EXCEPT ![s].pc = "done",
                                  ![s].subscriptionId = nextSubscriptionId]
          /\ cmds' = Append(cmds, Cmd("subscribe", nextSubscriptionId,
                                      subs[s].channel.id, "", ""))
          /\ unsubscribeByName' = MapSet(unsubscribeByName, subs[s].topic, s)
          /\ messageListeners' = Append(messageListeners, s)
    /\ nextSubscriptionId' = nextSubscriptionId + 1
    /\ mq' = Tail(mq)
    /\ UNCHANGED <<svcVars, dirVars, codecVars, pubVars, emitted, advertiseListeners, thrown,
                   nVerbs, nEvents>>

\* ------------------------------------------------------------- peer events
\* What the peer advertises after an advertisement of <<id, name>> pairs of
\* one kind: an id advertised again stands for its new name.
Advertised(now, kind, pairs) ==
    {x \in now : ~(x[1] = kind /\ \E i \in 1..Len(pairs) : pairs[i][1] = x[2])}
    \cup {<<kind, pairs[i][1], pairs[i][2]>> :
             i \in {j \in 1..Len(pairs) :
                       \A k \in (j + 1)..Len(pairs) : pairs[k][1] # pairs[j][1]}}

\* What the peer advertises after it retracted ids of one kind.
Retracted(now, kind, ids) ==
    {x \in now : ~(x[1] = kind /\ \E i \in 1..Len(ids) : ids[i] = x[2])}

\* The constructor's 'advertise' handler over the channels of one event.
RECURSIVE RecordById(_, _)
RecordById(byId, channels) ==
    IF channels = <<>> THEN byId
    ELSE RecordById(MapSet(byId, Head(channels).id, Head(channels)), Tail(channels))

RECURSIVE RecordByName(_, _)
RecordByName(byName, channels) ==
    IF channels = <<>> THEN byName
    ELSE RecordByName(NameSet(byName, Head(channels)), Tail(channels))

\* The constructor's 'unadvertise' handler over the ids of one event: an id
\* found in the by-id index is deleted there, and the name of the channel
\* stored under that id is deleted from the by-name index.
RECURSIVE RemoveById(_, _)
RemoveById(byId, ids) ==
    IF ids = <<>> THEN byId
    ELSE RemoveById(IF MapHas(byId, Head(ids)) THEN MapDelete(byId, Head(ids)) ELSE byId,
                    Tail(ids))

\* A retraction that leaves the by-name index alone.
RemoveByNameNothing(byName, byId, ids) == byName

RECURSIVE RemoveByName(_, _, _)
RemoveByName(byName, byId, ids) ==
    IF ids = <<>> THEN byName
    ELSE IF MapHas(byId, Head(ids))
         THEN RemoveByName(NameDelete(byName, byId[Head(ids)].topic),
                           MapDelete(byId, Head(ids)), Tail(ids))
         ELSE RemoveByName(byName, byId, Tail(ids))

\* The topic a #getChannel listener waits for.
ListenerTopic(l) == IF l.op = "adv" THEN advs[l.idx].topic ELSE subs[l.idx].topic

\* Whether a #getChannel listener finds its name in the channels of an event.
ListenerFires(l, channels) == Find(channels, ListenerTopic(l)) # NoChannel

\* The job queued when the promise a #getChannel listener resolves is
\* fulfilled: the resumption of that #getChannel call.
ResumeJob(l) == Job(IF l.op = "adv" THEN "getChannelAdv" ELSE "getChannelSub", l.idx)

RECURSIVE ResumeJobs(_, _)
ResumeJobs(listeners, channels) ==
    IF listeners = <<>> THEN <<>>
    ELSE IF ListenerFires(Head(listeners), channels)
         THEN <<ResumeJob(Head(listeners))>> \o ResumeJobs(Tail(listeners), channels)
         ELSE ResumeJobs(Tail(listeners), channels)

\* client 'advertise' event: the constructor's handler runs first, then the
\* #getChannel listeners in the order they were attached; a listener that
\* finds its name detaches itself and resolves with the first such channel.
PeerAdvertise(channels) ==
    /\ mq = <<>>
    /\ nEvents < MaxEvents
    /\ channelsById' = RecordById(channelsById, channels)
    /\ channelsByName' = RecordByName(channelsByName, channels)
    /\ advertiseListeners' =
          SelectSeq(advertiseListeners, LAMBDA l : ~ListenerFires(l, channels))
    /\ advs' = [a \in 1..Len(advs) |->
                 IF advs[a].pc = "waiting" /\ Find(channels, advs[a].topic) # NoChannel
                 THEN [advs[a] EXCEPT !.pc = "resume",
                                      !.channel = Find(channels, advs[a].topic)]
                 ELSE advs[a]]
    /\ subs' = [s \in 1..Len(subs) |->
                 IF subs[s].pc = "waiting" /\ Find(channels, subs[s].topic) # NoChannel
                 THEN [subs[s] EXCEPT !.pc = "resume",
                                      !.channel = Find(channels, subs[s].topic)]
                 ELSE subs[s]]
    /\ mq' = ResumeJobs(advertiseListeners, channels)
    /\ nEvents' = nEvents + 1
    /\ callerTask' = (FALSE)
    /\ lastEvent' = Event("advertise", 0, 0, "", channels)
    /\ UNCHANGED rosVars
    /\ justUnsubscribed' = NoUnsubscribe
    /\ advertisedChannels' = advertisedChannels \cup {channels[i] : i \in 1..Len(channels)}
    /\ live' = Advertised(live, "channel",
                          [i \in 1..Len(channels) |-> <<channels[i].id, channels[i].topic>>])
    /\ UNCHANGED wanted
    /\ UNCHANGED <<svcVars, codecVars, unadvertiseByName, publishByName, pubs, nextPublisherId,
                   sendMessages, unsubscribeByName, messageListeners, nextSubscriptionId,
                   emitted, cmds, thrown, nVerbs>>

\* client 'unadvertise' event
PeerUnadvertise(channelIds) ==
    /\ mq = <<>>
    /\ nEvents < MaxEvents
    /\ channelsById' = RemoveById(channelsById, channelIds)
    /\ channelsByName' = RemoveByName(channelsByName, channelsById, channelIds)
    /\ nEvents' = nEvents + 1
    /\ callerTask' = (FALSE)
    /\ lastEvent' = Event("unadvertise", 0, 0, "", channelIds)
    /\ UNCHANGED rosVars
    /\ justUnsubscribed' = NoUnsubscribe
    /\ live' = Retracted(live, "channel", channelIds)
    /\ UNCHANGED <<wanted, advertisedChannels>>
    /\ UNCHANGED <<svcVars, codecVars, pubVars, subVars, advertiseListeners, mq, cmds, thrown,
                   nVerbs>>

\* A listener that does not compare subscription ids.
FrameMatchesAny(s, frame) == TRUE

\* event.subscriptionId === subscriptionId, for the listener of subscribe s
FrameMatches(s, frame) == subs[s].subscriptionId = frame.subscriptionId

\* The message listeners of #subscribe over one frame, in the order they
\* were attached: a listener whose subscription id matches gets the reader
\* of its channel and emits the decoded value under its topic; 'schema not
\* found' ends the dispatch of the event.
RECURSIVE Dispatch(_, _, _, _)
Dispatch(listeners, frame, event, acc) ==
    IF listeners = <<>> THEN acc
    ELSE LET s == Head(listeners)
             r == GetCodec(acc.readers, ChannelCodecName(subs[s].channel),
                           ChannelSchemaIsString(subs[s].channel))
         IN IF ~FrameMatches(s, frame)
            THEN Dispatch(Tail(listeners), frame, event, acc)
            ELSE IF r.threw
            THEN [acc EXCEPT !.thrown = Append(@, Thrown("event", "subscribe", s))]
            ELSE Dispatch(Tail(listeners), frame, event,
                          [acc EXCEPT !.readers = r.cache,
                                      !.emitted = Append(@,
                                          [key |-> subs[s].topic,
                                           value |-> ReadMessage(r.codec, frame.data),
                                           sub |-> s, event |-> event])])

\* client 'message' event
MessageFrame(subscriptionId, data) ==
    /\ mq = <<>>
    /\ nEvents < MaxEvents
    /\ LET acc == Dispatch(messageListeners,
                           [subscriptionId |-> subscriptionId, data |-> data],
                           nEvents + 1,
                           [readers |-> messageReaders, emitted |-> emitted,
                            thrown |-> thrown])
       IN /\ messageReaders' = acc.readers
          /\ emitted' = acc.emitted
          /\ thrown' = acc.thrown
    /\ nEvents' = nEvents + 1
    /\ callerTask' = (emitted' # emitted)
    /\ lastEvent' = Event("message", subscriptionId, 0, data, <<>>)
    /\ UNCHANGED rosVars
    /\ justUnsubscribed' = NoUnsubscribe
    /\ UNCHANGED <<wanted, advertisedChannels, live>>
    /\ UNCHANGED <<svcVars, dirVars, messageWriters, pubVars, unsubscribeByName, subs,
                   messageListeners, nextSubscriptionId, advertiseListeners, mq, cmds,
                   nVerbs>>

\* ------------------------------------------------------------- call_service
\* servicesByName.get(name) / set(service.name, service) / delete(name)
ServiceGet(byName, name) ==
    IF \E i \in 1..Len(byName) : byName[i].name = name
    THEN byName[CHOOSE i \in 1..Len(byName) : byName[i].name = name]
    ELSE NoService

ServiceSet(byName, service) ==
    IF \E i \in 1..Len(byName) : byName[i].name = service.name
    THEN [i \in 1..Len(byName) |->
            IF byName[i].name = service.name THEN service ELSE byName[i]]
    ELSE Append(byName, service)

ServiceDelete(byName, name) == SelectSeq(byName, LAMBDA x : x.name # name)

\* services.find((service) => service.name === name)
RECURSIVE FindService(_, _)
FindService(services, name) ==
    IF services = <<>> THEN NoService
    ELSE IF Head(services).name = name THEN Head(services)
    ELSE FindService(Tail(services), name)

\* name.replace(':', '.'): the first colon only
RECURSIVE ReplaceColon(_)
ReplaceColon(name) ==
    IF name = <<>> THEN <<>>
    ELSE IF Head(name) = ":" THEN <<".">> \o Tail(name)
    ELSE <<Head(name)>> \o ReplaceColon(Tail(name))

\* JSON.parse(text): a value, or a SyntaxError
JsonParses(text) == text.quoted \/ text.text \in {"true", "false", "1"}
JsonParse(text) ==
    [t |-> IF text.quoted THEN "str"
           ELSE IF text.text \in {"true", "false"} THEN "bool" ELSE "num",
     v |-> text.text]

\* JSON.stringify(value)
JsonStringify(value) == [quoted |-> value.t = "str", text |-> value.v]

\* [...channelsByName.keys()] and [...channelsByName.values()].map(x => x.schemaName)
TopicNames(byName) == [i \in 1..Len(byName) |-> byName[i].topic]
TopicTypes(byName) == [i \in 1..Len(byName) |-> byName[i].schemaName]

Result(key, result, tag, values, event) ==
    [key |-> key, result |-> result, tag |-> tag, values |-> values, event |-> event]

\* The synchronous emission of #getTopics, #getTopicType and #getServiceType.
SyncResults(c, type, args) ==
    IF type = "rosapi/Topics"
    THEN <<Result(c, TRUE, "topics",
                  [topics |-> TopicNames(channelsByName),
                   types |-> TopicTypes(channelsByName)], 0)>>
    ELSE IF type = "rosapi/TopicType"
    THEN IF NameGet(channelsByName, args.topic) # NoChannel
         THEN <<Result(c, TRUE, "type",
                       NameGet(channelsByName, args.topic).schemaName, 0)>>
         ELSE <<Result(c, FALSE, "none", "", 0)>>
    ELSE IF type = "rosapi/ServiceType"
    THEN IF ServiceGet(servicesByName, args.service) # NoService
         THEN <<Result(c, TRUE, "type",
                       ServiceGet(servicesByName, args.service).type, 0)>>
         ELSE <<Result(c, FALSE, "none", "", 0)>>
    ELSE <<>>

ParamCmd(cmd, name, value, id) == [cmd |-> cmd, name |-> name, value |-> value, id |-> id]

\* send({op: 'call_service', id, service, type, args}), up to the await of
\* #getService: the built-in handler of the type, then the lookup of the
\* service whatever the type.  The caller's id is the call's index.  A
\* SyntaxError of JSON.parse in #setParam rejects the call after its
\* listener is attached.
CallService(service, type, args) ==
    /\ CallerRuns
    /\ nVerbs < MaxVerbs
    /\ LET c == Len(calls) + 1
           svc == ServiceGet(servicesByName, service)
           found == svc # NoService
           rejected == type = "rosapi/SetParam" /\ ~JsonParses(args.value)
           name == ReplaceColon(args.name)
       IN /\ calls' = Append(calls,
                [id |-> c, service |-> service, type |-> type, args |-> args,
                 name |-> name, svc |-> svc, callId |-> -1,
                 reader |-> NewCodec(<<>>, ""),
                 pc |-> IF rejected THEN "rejected"
                        ELSE IF found THEN "continue" ELSE "waiting"])
          /\ parameterListeners' =
                IF type \in {"rosapi/GetParam", "rosapi/SetParam"}
                THEN Append(parameterListeners, c) ELSE parameterListeners
          /\ paramCmds' =
                IF type = "rosapi/GetParam"
                THEN Append(paramCmds, ParamCmd("getParameters", name, NoJsonText, c))
                ELSE IF type = "rosapi/SetParam" /\ ~rejected
                THEN Append(paramCmds, ParamCmd("setParameters", name, args.value, c))
                ELSE paramCmds
          /\ graphListeners' =
                IF type = "rosapi/Services" THEN Append(graphListeners, c)
                ELSE graphListeners
          /\ cmds' =
                IF type = "rosapi/Services"
                THEN Append(cmds, Cmd("subscribeConnectionGraph", 0, 0, "", ""))
                ELSE cmds
          /\ results' = results \o SyncResults(c, type, args)
          /\ mq' = IF found /\ ~rejected THEN Append(mq, Job("callService", c)) ELSE mq
          /\ advertiseServicesListeners' =
                IF ~found /\ ~rejected THEN Append(advertiseServicesListeners, c)
                ELSE advertiseServicesListeners
    /\ nVerbs' = nVerbs + 1
    /\ callerTask' = TRUE
    /\ UNCHANGED ghostVars
    /\ UNCHANGED rosVars
    /\ justUnsubscribed' = NoUnsubscribe
    /\ UNCHANGED <<dirVars, codecVars, pubVars, subVars, advertiseListeners, thrown,
                   servicesById, servicesByName, callId, responseListeners,
                   failureListeners, requests, nEvents>>

\* A call id that is not advanced.
NextCallIdSame(id) == id

\* this.#callId++: the value #callId holds after the call took id
NextCallId(id) == id + 1

\* #getService resumes after its await and returns the service: the rest of
\* #callService is queued.
ResumeGetService ==
    /\ mq # <<>>
    /\ UNCHANGED <<callerTask, ghostVars>>
    /\ UNCHANGED rosVars
    /\ justUnsubscribed' = NoUnsubscribe
    /\ Head(mq).kind = "getService"
    /\ calls' = [calls EXCEPT ![Head(mq).idx].pc = "continue"]
    /\ mq' = Append(Tail(mq), Job("callService", Head(mq).idx))
    /\ UNCHANGED <<dirVars, codecVars, pubVars, subVars, advertiseListeners, cmds, thrown,
                   servicesById, servicesByName, callId, advertiseServicesListeners,
                   responseListeners, failureListeners, parameterListeners,
                   graphListeners, requests, paramCmds, results, nVerbs, nEvents>>

\* The rest of #callService after its await: the request writer, then the
\* response reader, the next call id, the two listeners and the request.
\* 'schema not found' from either codec rejects the call there.
CallServiceContinue ==
    /\ mq # <<>>
    /\ UNCHANGED <<callerTask, ghostVars>>
    /\ UNCHANGED rosVars
    /\ justUnsubscribed' = NoUnsubscribe
    /\ Head(mq).kind = "callService"
    /\ LET c == Head(mq).idx
           svc == calls[c].svc
           w == GetCodec(messageWriters, svc.type, svc.request = "text")
           r == GetCodec(messageReaders, svc.type, svc.response = "text")
       IN /\ messageWriters' = w.cache
          /\ messageReaders' = IF w.threw THEN messageReaders ELSE r.cache
          /\ IF w.threw \/ r.threw
             THEN /\ calls' = [calls EXCEPT ![c].pc = "failed"]
                  /\ thrown' = Append(thrown, Thrown("microtask", "call_service", c))
                  /\ UNCHANGED <<callId, responseListeners, failureListeners, requests>>
             ELSE /\ calls' = [calls EXCEPT ![c].pc = "sent", ![c].callId = callId,
                                             ![c].reader = r.codec]
                  /\ callId' = NextCallId(callId)
                  /\ responseListeners' = Append(responseListeners, c)
                  /\ failureListeners' = Append(failureListeners, c)
                  /\ requests' = Append(requests,
                        [serviceId |-> svc.id, callId |-> callId,
                         data |-> WriteMessage(w.codec, calls[c].args.request),
                         call |-> c])
                  /\ UNCHANGED thrown
    /\ mq' = Tail(mq)
    /\ UNCHANGED <<dirVars, pubVars, subVars, advertiseListeners, cmds,
                   servicesById, servicesByName, advertiseServicesListeners,
                   parameterListeners, graphListeners, paramCmds, results,
                   nVerbs, nEvents>>

\* ------------------------------------------------------------- service events
RECURSIVE RecordServiceById(_, _)
RecordServiceById(byId, services) ==
    IF services = <<>> THEN byId
    ELSE RecordServiceById(MapSet(byId, Head(services).id, Head(services)),
                           Tail(services))

RECURSIVE RecordServiceByName(_, _)
RecordServiceByName(byName, services) ==
    IF services = <<>> THEN byName
    ELSE RecordServiceByName(ServiceSet(byName, Head(services)), Tail(services))

RECURSIVE RemoveServiceByName(_, _, _)
RemoveServiceByName(byName, byId, ids) ==
    IF ids = <<>> THEN byName
    ELSE IF MapHas(byId, Head(ids))
         THEN RemoveServiceByName(ServiceDelete(byName, byId[Head(ids)].name),
                                  MapDelete(byId, Head(ids)), Tail(ids))
         ELSE RemoveServiceByName(byName, byId, Tail(ids))

\* Whether the #getService listener of call c finds its name in an event.
ServiceListenerFires(c, services) == FindService(services, calls[c].service) # NoService

RECURSIVE ServiceResumeJobs(_, _)
ServiceResumeJobs(listeners, services) ==
    IF listeners = <<>> THEN <<>>
    ELSE IF ServiceListenerFires(Head(listeners), services)
         THEN <<Job("getService", Head(listeners))>>
              \o ServiceResumeJobs(Tail(listeners), services)
         ELSE ServiceResumeJobs(Tail(listeners), services)

\* client 'advertiseServices' event
PeerAdvertiseServices(services) ==
    /\ mq = <<>>
    /\ nEvents < MaxEvents
    /\ servicesById' = RecordServiceById(servicesById, services)
    /\ servicesByName' = RecordServiceByName(servicesByName, services)
    /\ advertiseServicesListeners' =
          SelectSeq(advertiseServicesListeners,
                    LAMBDA c : ~ServiceListenerFires(c, services))
    /\ calls' = [c \in 1..Len(calls) |->
                  IF calls[c].pc = "waiting" /\ ServiceListenerFires(c, services)
                  THEN [calls[c] EXCEPT !.pc = "resume",
                                        !.svc = FindService(services, calls[c].service)]
                  ELSE calls[c]]
    /\ mq' = ServiceResumeJobs(advertiseServicesListeners, services)
    /\ nEvents' = nEvents + 1
    /\ callerTask' = (FALSE)
    /\ lastEvent' = Event("advertiseServices", 0, 0, "", services)
    /\ UNCHANGED rosVars
    /\ justUnsubscribed' = NoUnsubscribe
    /\ live' = Advertised(live, "service",
                          [i \in 1..Len(services) |-> <<services[i].id, services[i].name>>])
    /\ UNCHANGED <<wanted, advertisedChannels>>
    /\ UNCHANGED <<dirVars, codecVars, pubVars, subVars, advertiseListeners, cmds, thrown,
                   callId, responseListeners, failureListeners, parameterListeners,
                   graphListeners, requests, paramCmds, results, nVerbs>>

\* client 'unadvertiseServices' event
PeerUnadvertiseServices(serviceIds) ==
    /\ mq = <<>>
    /\ nEvents < MaxEvents
    /\ servicesById' = RemoveById(servicesById, serviceIds)
    /\ servicesByName' = RemoveServiceByName(servicesByName, servicesById, serviceIds)
    /\ nEvents' = nEvents + 1
    /\ callerTask' = (FALSE)
    /\ lastEvent' = Event("unadvertiseServices", 0, 0, "", serviceIds)
    /\ UNCHANGED rosVars
    /\ justUnsubscribed' = NoUnsubscribe
    /\ live' = Retracted(live, "service", serviceIds)
    /\ UNCHANGED <<wanted, advertisedChannels>>
    /\ UNCHANGED <<dirVars, codecVars, pubVars, subVars, advertiseListeners, mq, cmds,
                   thrown, callId, calls, advertiseServicesListeners, responseListeners,
                   failureListeners, parameterListeners, graphListeners, requests,
                   paramCmds, results, nVerbs>>

\* A listener that compares the service id alone.
CallMatchesService(c, serviceId, id) == serviceId = calls[c].svc.id

\* The condition of the success and the failure listener of call c.
CallMatches(c, serviceId, id) ==
    serviceId = calls[c].svc.id /\ id = calls[c].callId

\* The envelopes the listeners of one event emit, in the order the
\* listeners were attached.
Envelopes(listeners, Fires(_), Envelope(_)) ==
    LET fired == SelectSeq(listeners, Fires)
    IN [i \in 1..Len(fired) |-> Envelope(fired[i])]

\* client 'serviceCallResponse' event: a matching listener detaches itself
\* and emits the decoded response with result true.
ServiceCallResponse(serviceId, id, data) ==
    /\ mq = <<>>
    /\ nEvents < MaxEvents
    /\ LET Fires(c) == CallMatches(c, serviceId, id)
           Envelope(c) == Result(calls[c].id, TRUE, "response",
                                 ReadMessage(calls[c].reader, data), nEvents + 1)
       IN /\ responseListeners' = SelectSeq(responseListeners, LAMBDA c : ~Fires(c))
          /\ results' = results \o Envelopes(responseListeners, Fires, Envelope)
    /\ nEvents' = nEvents + 1
    /\ callerTask' = (results' # results)
    /\ lastEvent' = Event("serviceCallResponse", serviceId, id, data, <<>>)
    /\ UNCHANGED rosVars
    /\ justUnsubscribed' = NoUnsubscribe
    /\ UNCHANGED <<wanted, advertisedChannels, live>>
    /\ UNCHANGED <<dirVars, codecVars, pubVars, subVars, advertiseListeners, mq, cmds,
                   thrown, servicesById, servicesByName, callId, calls,
                   advertiseServicesListeners, failureListeners, parameterListeners,
                   graphListeners, requests, paramCmds, nVerbs>>

\* client 'serviceCallFailure' event: a matching listener detaches itself
\* and emits the failure message with result false.
ServiceCallFailure(serviceId, id, message) ==
    /\ mq = <<>>
    /\ nEvents < MaxEvents
    /\ LET Fires(c) == CallMatches(c, serviceId, id)
           Envelope(c) == Result(calls[c].id, FALSE, "failure", message, nEvents + 1)
       IN /\ failureListeners' = SelectSeq(failureListeners, LAMBDA c : ~Fires(c))
          /\ results' = results \o Envelopes(failureListeners, Fires, Envelope)
    /\ nEvents' = nEvents + 1
    /\ callerTask' = (results' # results)
    /\ lastEvent' = Event("serviceCallFailure", serviceId, id, message, <<>>)
    /\ UNCHANGED rosVars
    /\ justUnsubscribed' = NoUnsubscribe
    /\ UNCHANGED <<wanted, advertisedChannels, live>>
    /\ UNCHANGED <<dirVars, codecVars, pubVars, subVars, advertiseListeners, mq, cmds,
                   thrown, servicesById, servicesByName, callId, calls,
                   advertiseServicesListeners, responseListeners, parameterListeners,
                   graphListeners, requests, paramCmds, nVerbs>>

\* A listener that does not compare the parameter name.
ParamMatchesId(c, id, parameters) == parameters # <<>> /\ id = calls[c].id

\* The condition of the listener of #getParam / #setParam of call c:
\* event.parameters[0]?.name === name && event.id === message.id
ParamMatches(c, id, parameters) ==
    /\ parameters # <<>>
    /\ parameters[1].name = calls[c].name
    /\ id = calls[c].id

\* client 'parameterValues' event: a matching listener detaches itself;
\* #getParam emits the JSON text of the first value, #setParam no values.
ParameterValues(id, parameters) ==
    /\ mq = <<>>
    /\ nEvents < MaxEvents
    /\ LET Fires(c) == ParamMatches(c, id, parameters)
           Envelope(c) ==
               IF calls[c].type = "rosapi/GetParam"
               THEN Result(calls[c].id, TRUE, "value",
                           JsonStringify(parameters[1].value), nEvents + 1)
               ELSE Result(calls[c].id, TRUE, "none", "", nEvents + 1)
       IN /\ parameterListeners' = SelectSeq(parameterListeners, LAMBDA c : ~Fires(c))
          /\ results' = results \o Envelopes(parameterListeners, Fires, Envelope)
    /\ nEvents' = nEvents + 1
    /\ callerTask' = (results' # results)
    /\ lastEvent' = Event("parameterValues", id, 0, "", parameters)
    /\ UNCHANGED rosVars
    /\ justUnsubscribed' = NoUnsubscribe
    /\ UNCHANGED <<wanted, advertisedChannels, live>>
    /\ UNCHANGED <<dirVars, codecVars, pubVars, subVars, advertiseListeners, mq, cmds,
                   thrown, servicesById, servicesByName, callId, calls,
                   advertiseServicesListeners, responseListeners, failureListeners,
                   graphListeners, requests, paramCmds, nVerbs>>

\* event.advertisedServices.map((service) => service.name)
AdvertisedNames(advertisedServices) ==
    [i \in 1..Len(advertisedServices) |-> advertisedServices[i].name]

\* Listeners that do not unsubscribe from the graph.
GraphUnsubscribesNone(listeners) == <<>>

RECURSIVE GraphUnsubscribes(_)
GraphUnsubscribes(listeners) ==
    IF listeners = <<>> THEN <<>>
    ELSE <<Cmd("unsubscribeConnectionGraph", 0, 0, "", "")>>
         \o GraphUnsubscribes(Tail(listeners))

\* client 'connectionGraphUpdate' event: every listener of #getServices
\* detaches itself, unsubscribes from the graph and emits the names of the
\* advertised services.
ConnectionGraphUpdate(advertisedServices) ==
    /\ mq = <<>>
    /\ nEvents < MaxEvents
    /\ LET Fires(c) == TRUE
           Envelope(c) == Result(calls[c].id, TRUE, "services",
                                 AdvertisedNames(advertisedServices), nEvents + 1)
       IN /\ graphListeners' = <<>>
          /\ cmds' = cmds \o GraphUnsubscribes(graphListeners)
          /\ results' = results \o Envelopes(graphListeners, Fires, Envelope)
    /\ nEvents' = nEvents + 1
    /\ callerTask' = (results' # results)
    /\ lastEvent' = Event("connectionGraphUpdate", 0, 0, "", advertisedServices)
    /\ UNCHANGED rosVars
    /\ justUnsubscribed' = NoUnsubscribe
    /\ UNCHANGED <<wanted, advertisedChannels, live>>
    /\ UNCHANGED <<dirVars, codecVars, pubVars, subVars, advertiseListeners, mq, thrown,
                   servicesById, servicesByName, callId, calls,
                   advertiseServicesListeners, responseListeners, failureListeners,
                   parameterListeners, requests, paramCmds, nVerbs>>


\* ------------------------------------------------------------- connection
\* The events of the transport connection a peer event may carry.
TransportEvents == {"e1", "e2"}

\* An emitter that drops an emission whose name it has emitted before.
EmitOnce(log, name, event) ==
    IF \E i \in 1..Len(log) : log[i].name = name THEN log
    ELSE Append(log, [name |-> name, event |-> event])

\* #ros.emit(name, event)
Emit(log, name, event) == Append(log, [name |-> name, event |-> event])

\* client.on('open', ...)
TransportOpen ==
    /\ mq = <<>>
    /\ nEvents < MaxEvents
    /\ isConnected' = TRUE
    /\ lifecycle' = Emit(lifecycle, "connection", "")
    /\ nEvents' = nEvents + 1
    /\ callerTask' = FALSE
    /\ lastEvent' = Event("open", 0, 0, "", <<>>)
    /\ justUnsubscribed' = NoUnsubscribe
    /\ UNCHANGED <<wanted, advertisedChannels, live>>
    /\ UNCHANGED <<svcVars, dirVars, codecVars, pubVars, subVars, advertiseListeners, mq,
                   cmds, thrown, nVerbs>>

\* client.on('close', ...)
TransportClose(event) ==
    /\ mq = <<>>
    /\ nEvents < MaxEvents
    /\ isConnected' = FALSE
    /\ lifecycle' = Emit(lifecycle, "close", event)
    /\ nEvents' = nEvents + 1
    /\ callerTask' = FALSE
    /\ lastEvent' = Event("close", 0, 0, event, <<>>)
    /\ justUnsubscribed' = NoUnsubscribe
    /\ UNCHANGED <<wanted, advertisedChannels, live>>
    /\ UNCHANGED <<svcVars, dirVars, codecVars, pubVars, subVars, advertiseListeners, mq,
                   cmds, thrown, nVerbs>>

\* client.on('error', ...)
TransportError(event) ==
    /\ mq = <<>>
    /\ nEvents < MaxEvents
    /\ lifecycle' = Emit(lifecycle, "error", event)
    /\ nEvents' = nEvents + 1
    /\ callerTask' = FALSE
    /\ lastEvent' = Event("error", 0, 0, event, <<>>)
    /\ justUnsubscribed' = NoUnsubscribe
    /\ UNCHANGED <<wanted, advertisedChannels, live, isConnected>>
    /\ UNCHANGED <<svcVars, dirVars, codecVars, pubVars, subVars, advertiseListeners, mq,
                   cmds, thrown, nVerbs>>

\* ------------------------------------------------------------- specification
Microtask ==
    \/ ResumeGetChannel
    \/ AdvertiseThen
    \/ PublishContinue
    \/ SubscribeContinue
    \/ ResumeGetService
    \/ CallServiceContinue

\* The whole session.
Next ==
    \/ \E t \in Topics, ty \in SchemaNames : Advertise(t, ty)
    \/ \E t \in Topics : Unadvertise(t)
    \/ \E t \in Topics, m \in Msgs : Publish(t, m)
    \/ \E t \in Topics : Subscribe(t)
    \/ \E t \in Topics : Unsubscribe(t)
    \/ \E sv \in ServiceNames, ty \in CallTypes : CallService(sv, ty, NoArgs)
    \/ \E b \in AdvertiseBatches : PeerAdvertise(b)
    \/ \E b \in UnadvertiseBatches : PeerUnadvertise(b)
    \/ \E i \in 1..2, d \in Bytes : MessageFrame(i, d)
    \/ \E sv \in Services : PeerAdvertiseServices(<<sv>>)
    \/ \E i \in ServiceIds : PeerUnadvertiseServices(<<i>>)
    \/ \E i \in ServiceIds, k \in 0..1, d \in Bytes : ServiceCallResponse(i, k, d)
    \/ \E i \in ServiceIds, k \in 0..1 : ServiceCallFailure(i, k, "failed")
    \/ \E i \in 1..2, n \in EventParamNames, v \in JsonValues :
          ParameterValues(i, <<[name |-> n, value |-> v]>>)
    \/ \E n \in ServiceNames : ConnectionGraphUpdate(<<[name |-> n]>>)
    \/ TransportOpen
    \/ \E e \in TransportEvents : TransportClose(e)
    \/ \E e \in TransportEvents : TransportError(e)
    \/ Microtask

Spec == Init /\ [][Next]_vars

\* ------------------------------------------------------------- publishing
\* The session driven by advertise, unadvertise and publish verbs and by the
\* peer's channel advertisements.
PubChannels ==
    {[id |-> 1, topic |-> "/a", schemaName |-> "pkg/A", schema |-> "text"],
     [id |-> 2, topic |-> "/b", schemaName |-> "pkg/B", schema |-> "text"],
     [id |-> 2, topic |-> "/a", schemaName |-> "pkg/B", schema |-> "null"]}

PubBatches ==
    {<<c>> : c \in PubChannels}
    \cup {<<[id |-> 1, topic |-> "/a", schemaName |-> "pkg/A", schema |-> "text"],
            [id |-> 2, topic |-> "/b", schemaName |-> "pkg/B", schema |-> "text"]>>}

NextPub ==
    \/ \E t \in Topics : Advertise(t, "pkg/A")
    \/ \E t \in Topics : Unadvertise(t)
    \/ \E t \in Topics, m \in Msgs : Publish(t, m)
    \/ \E b \in PubBatches : PeerAdvertise(b)
    \/ ResumeGetChannel
    \/ AdvertiseThen
    \/ PublishContinue

SpecPub == Init /\ [][NextPub]_vars

\* ------------------------------------------------------------- subscribing
\* The session driven by subscribe and unsubscribe verbs, the peer's channel
\* advertisements and retractions, and incoming message frames.
SubBatches ==
    {<<c>> : c \in PubChannels}
    \cup {<<[id |-> 1, topic |-> "/a", schemaName |-> "pkg/A", schema |-> "text"],
            [id |-> 2, topic |-> "/b", schemaName |-> "pkg/B", schema |-> "text"]>>}

NextSub ==
    \/ \E t \in Topics : Subscribe(t)
    \/ \E t \in Topics : Unsubscribe(t)
    \/ \E b \in SubBatches : PeerAdvertise(b)
    \/ \E i \in ChannelIds : PeerUnadvertise(<<i>>)
    \/ \E i \in 1..2, d \in Bytes : MessageFrame(i, d)
    \/ ResumeGetChannel
    \/ SubscribeContinue

SpecSub == Init /\ [][NextSub]_vars

\* ------------------------------------------------------------- calling
\* The session driven by call_service verbs, the peer's service
\* advertisements and the responses and failures of service calls.
CallServices ==
    {[id |-> 1, name |-> "/s", type |-> "pkg/S", request |-> "text", response |-> "text"],
     [id |-> 2, name |-> "/r", type |-> "pkg/S", request |-> "text", response |-> "text"],
     [id |-> 1, name |-> "/s", type |-> "pkg/T", request |-> "text", response |-> "absent"],
     [id |-> 2, name |-> "/s", type |-> "pkg/T", request |-> "absent", response |-> "text"]}

CallBatches ==
    {<<sv>> : sv \in CallServices}
    \cup {<<[id |-> 1, name |-> "/s", type |-> "pkg/S", request |-> "text",
             response |-> "text"],
            [id |-> 2, name |-> "/r", type |-> "pkg/S", request |-> "text",
             response |-> "text"]>>}

NextCall ==
    \/ /\ nVerbs < MaxCalls
       /\ \E sv \in ServiceNames, ty \in {"pkg/S", "rosapi/Topics"} :
             CallService(sv, ty, [NoArgs EXCEPT !.request = "m1"])
    \/ /\ nEvents < MaxCallEvents
       /\ \E b \in CallBatches : PeerAdvertiseServices(b)
    \/ /\ nEvents < MaxCallEvents
       /\ \E i \in ServiceIds, k \in 0..1 : ServiceCallResponse(i, k, "d1")
    \/ /\ nEvents < MaxCallEvents
       /\ \E i \in ServiceIds, k \in 0..1 : ServiceCallFailure(i, k, "failed")
    \/ ResumeGetService
    \/ CallServiceContinue

SpecCall == Init /\ [][NextCall]_vars

\* ------------------------------------------------------------- lookups
\* The session driven by the verbs that look a name up (advertise and
\* subscribe a channel, call_service a service), by the peer's
\* advertisements and retractions of channels and services, some without a
\* schema text, and by incoming message frames.  The peer advertises each
\* name under one id.
LookupChannels ==
    {[id |-> 1, topic |-> "/a", schemaName |-> "pkg/A", schema |-> "text"],
     [id |-> 2, topic |-> "/b", schemaName |-> "pkg/B", schema |-> "null"],
     [id |-> 2, topic |-> "/b", schemaName |-> "pkg/B", schema |-> "absent"]}

LookupBatches ==
    {<<c>> : c \in LookupChannels}
    \cup {<<[id |-> 2, topic |-> "/b", schemaName |-> "pkg/B", schema |-> "null"],
            [id |-> 1, topic |-> "/a", schemaName |-> "pkg/A", schema |-> "text"]>>}

LookupServices ==
    {[id |-> 1, name |-> "/s", type |-> "pkg/S", request |-> "text", response |-> "text"],
     [id |-> 2, name |-> "/r", type |-> "pkg/T", request |-> "text", response |-> "absent"]}

LookupServiceBatches ==
    {<<sv>> : sv \in LookupServices}
    \cup {<<[id |-> 2, name |-> "/r", type |-> "pkg/T", request |-> "text",
             response |-> "absent"],
            [id |-> 1, name |-> "/s", type |-> "pkg/S", request |-> "text",
             response |-> "text"]>>}

NextLookup ==
    \/ /\ nVerbs < MaxLookups
       /\ \E t \in Topics : Advertise(t, "pkg/A")
    \/ /\ nVerbs < MaxLookups
       /\ \E t \in Topics : Subscribe(t)
    \/ /\ nVerbs < MaxLookups
       /\ \E sv \in ServiceNames :
             CallService(sv, "pkg/S", [NoArgs EXCEPT !.request = "m1"])
    \/ /\ nEvents < MaxLookupEvents
       /\ \E b \in LookupBatches : PeerAdvertise(b)
    \/ /\ nEvents < MaxLookupEvents
       /\ \E i \in ChannelIds : PeerUnadvertise(<<i>>)
    \/ /\ nEvents < MaxLookupEvents
       /\ \E b \in LookupServiceBatches : PeerAdvertiseServices(b)
    \/ /\ nEvents < MaxLookupEvents
       /\ \E i \in ServiceIds : PeerUnadvertiseServices(<<i>>)
    \/ /\ nEvents < MaxLookupEvents
       /\ \E i \in 1..2 : MessageFrame(i, "d1")
    \/ ResumeGetChannel
    \/ AdvertiseThen
    \/ SubscribeContinue
    \/ ResumeGetService
    \/ CallServiceContinue

SpecLookup == Init /\ [][NextLookup]_vars

\* ------------------------------------------------------------- directory
\* The session driven by the peer's advertisements and retractions of
\* channels and services alone: any id under any name, an id or a name
\* advertised again, twice in one event, and retractions of ids that are
\* not advertised.
DirChannels == {c \in Channels : c.schema = "text"}

DirBatches ==
    {<<c>> : c \in DirChannels}
    \cup {<<c, d>> : c \in {x \in DirChannels : x.id = 1 /\ x.topic = "/a"
                                                  /\ x.schemaName = "pkg/A"},
                     d \in {x \in DirChannels : x.schemaName = "pkg/B"}}

DirRetractions == {<<1>>, <<2>>, <<1, 2>>, <<1, 1>>}

DirServices ==
    {sv \in Services : sv.type = "pkg/S" /\ sv.request = "text" /\ sv.response = "text"}

DirServiceBatches ==
    {<<sv>> : sv \in DirServices}
    \cup {<<sv, tv>> : sv \in {x \in DirServices : x.id = 1 /\ x.name = "/s"},
                       tv \in DirServices}

NextDir ==
    \/ /\ nEvents < MaxDirEvents
       /\ \E b \in DirBatches : PeerAdvertise(b)
    \/ /\ nEvents < MaxDirEvents
       /\ \E ids \in DirRetractions : PeerUnadvertise(ids)
    \/ /\ nEvents < MaxDirEvents
       /\ \E b \in DirServiceBatches : PeerAdvertiseServices(b)
    \/ /\ nEvents < MaxDirEvents
       /\ \E ids \in DirRetractions : PeerUnadvertiseServices(ids)

SpecDir == Init /\ [][NextDir]_vars

\* ------------------------------------------------------------- list-topics
\* The session driven by the peer's advertisements and retractions of
\* channels and by list-topics calls; the service the calls name is never
\* advertised, so the lookup that follows the built-in handler waits.
NextTopics ==
    \/ /\ nVerbs < MaxTopicCalls
       /\ CallService("/s", "rosapi/Topics", NoArgs)
    \/ /\ nEvents < MaxDirEvents
       /\ \E b \in DirBatches : PeerAdvertise(b)
    \/ /\ nEvents < MaxDirEvents
       /\ \E ids \in DirRetractions : PeerUnadvertise(ids)

SpecTopics == Init /\ [][NextTopics]_vars

\* ------------------------------------------------------------- list-services
\* The session driven by list-services calls and the peer's connection
\* graph updates; the service the calls name is never advertised, so the
\* lookup that follows the built-in handler waits.
GraphUpdates ==
    {<<>>, <<[name |-> "/s"]>>, <<[name |-> "/r"], [name |-> "/s"]>>}

NextGraph ==
    \/ CallService("/s", "rosapi/Services", NoArgs)
    \/ \E g \in GraphUpdates : ConnectionGraphUpdate(g)

SpecGraph == Init /\ [][NextGraph]_vars

\* ------------------------------------------------------------- get-param
\* The session driven by get-param calls and the peer's parameterValues
\* events: for either request id, no parameter or one parameter of any
\* name and value; the service the calls name is never advertised.
ParamEvents ==
    {<<>>} \cup {<<[name |-> n, value |-> v]>> :
                    n \in EventParamNames,
                    v \in {[t |-> "num", v |-> "1"], [t |-> "str", v |-> "x"]}}

NextParam ==
    \/ /\ nVerbs < MaxParamCalls
       /\ \E n \in ParamNames :
             CallService("/s", "rosapi/GetParam", [NoArgs EXCEPT !.name = n])
    \/ /\ nEvents < MaxParamEvents
       /\ \E i \in 1..2, ps \in ParamEvents : ParameterValues(i, ps)

SpecParam == Init /\ [][NextParam]_vars

\* ------------------------------------------------------------- lifecycle
\* The session driven by the open, close and error events of the transport
\* connection while a publisher, a subscription and a service call are
\* registered or wait for the peer's advertisement.
LifeChannel == [id |-> 1, topic |-> "/a", schemaName |-> "pkg/A", schema |-> "text"]
LifeService == [id |-> 1, name |-> "/s", type |-> "pkg/S", request |-> "text",
                response |-> "text"]

NextLife ==
    \/ /\ nVerbs < MaxLifeVerbs
       /\ Advertise("/a", "pkg/A")
    \/ /\ nVerbs < MaxLifeVerbs
       /\ Subscribe("/a")
    \/ /\ nVerbs < MaxLifeVerbs
       /\ CallService("/s", "pkg/S", [NoArgs EXCEPT !.request = "m1"])
    \/ /\ nEvents < MaxLifeEvents
       /\ PeerAdvertise(<<LifeChannel>>)
    \/ /\ nEvents < MaxLifeEvents
       /\ PeerAdvertiseServices(<<LifeService>>)
    \/ /\ nEvents < MaxLifeEvents
       /\ TransportOpen
    \/ /\ nEvents < MaxLifeEvents
       /\ \E e \in TransportEvents : TransportClose(e)
    \/ /\ nEvents < MaxLifeEvents
       /\ \E e \in TransportEvents : TransportError(e)
    \/ ResumeGetChannel
    \/ AdvertiseThen
    \/ SubscribeContinue
    \/ ResumeGetService
    \/ CallServiceContinue

SpecLife == Init /\ [][NextLife]_vars

\* C1: a sendMessage is issued with a publisher id only while that id is
\* the publisher registered for the topic of the publish: after
\* unadvertise(topic) no publisher id is registered for the topic, and a
\* later publish(topic) causes no sendMessage.
C1_SendOnlyWhileRegistered ==
    [][\A i \in (Len(sendMessages) + 1)..Len(sendMessages') :
         LET t == pubs[sendMessages'[i].pub].topic
         IN /\ MapHas(unadvertiseByName, t)
            /\ unadvertiseByName[t] = sendMessages'[i].publisherId]_vars

\* C7: for one topic the payloads reach sendMessage in the order of the
\* publish calls that produced them, whether a publish was issued before or
\* after the writer promise resolved.
C7_PublishOrder ==
    \A i, j \in 1..Len(sendMessages) :
        (i < j /\ pubs[sendMessages[i].pub].topic = pubs[sendMessages[j].pub].topic)
        => sendMessages[i].pub < sendMessages[j].pub

\* Two payloads of one topic were sent, the first published while the
\* promise was pending and the second after it had resolved.
C7_Witness ==
    \E i, j \in 1..Len(sendMessages) :
        /\ i < j
        /\ pubs[sendMessages[i].pub].topic = pubs[sendMessages[j].pub].topic
        /\ pubs[sendMessages[i].pub].awaited
        /\ ~pubs[sendMessages[j].pub].awaited

\* The sendMessage commands a publish call has caused.
SendsOf(k) == {i \in 1..Len(sendMessages) : sendMessages[i].pub = k}

\* C8: a publish issued while a publisher is registered for its topic is
\* never sent twice; it is sent only once the channel is advertised and the
\* writer compiled, through the registered publisher id and carrying its
\* msg; and once the promise has resolved and no continuation is queued it
\* has been sent exactly once.
C8_PublishSentOnce ==
    \A k \in 1..Len(pubs) :
        pubs[k].registered # 0 =>
            /\ Cardinality(SendsOf(k)) <= 1
            /\ \A i \in SendsOf(k) :
                  /\ advs[pubs[k].promise].pc = "resolved"
                  /\ MapHas(messageWriters, sendMessages[i].data.encodedBy)
                  /\ sendMessages[i].publisherId = pubs[k].registered
                  /\ sendMessages[i].data.value = pubs[k].msg
            /\ (mq = <<>> /\ advs[pubs[k].promise].pc = "resolved")
                  => Cardinality(SendsOf(k)) = 1

\* A publish issued before the peer advertised the channel has been sent.
C8_Witness ==
    \E k \in 1..Len(pubs) :
        pubs[k].registered # 0 /\ pubs[k].awaited /\ SendsOf(k) # {}

\* The transport subscriptions of a topic that are open: subscribed and
\* not unsubscribed since.
OpenSubscriptions(t) ==
    {s \in 1..Len(subs) :
        /\ subs[s].topic = t
        /\ subs[s].subscriptionId # 0
        /\ ~\E i \in 1..Len(cmds) :
              cmds[i].cmd = "unsubscribe" /\ cmds[i].id = subs[s].subscriptionId}

\* The emissions a step adds.
NewEmissions == {i \in (Len(emitted) + 1)..Len(emitted') : TRUE}

\* C2: from an unsubscribe(topic) until the next subscribe(topic) no
\* transport subscription of the topic is open or gets opened, and no frame
\* is emitted under the topic.
C2_UnsubscribeStopsListening ==
    [][/\ \A t \in Topics : ~wanted'[t] => OpenSubscriptions(t)' = {}
       /\ \A i \in NewEmissions : wanted[emitted'[i].key]]_vars

\* The step delivers a message frame.
IsFrame == nEvents' = nEvents + 1 /\ lastEvent'.kind = "message"

\* The subscribes whose message listener is attached.
Listening == {messageListeners[i] : i \in 1..Len(messageListeners)}

\* The emissions a step adds under a topic.
NewEmissionsUnder(t) == {i \in NewEmissions : emitted'[i].key = t}

\* The transport subscribe of s was issued for the id of a channel named
\* as the topic of s, which the peer had advertised.
SubscribedToAdvertised(s) ==
    /\ subs[s].channel.topic = subs[s].topic
    /\ subs[s].channel \in advertisedChannels
    /\ \E i \in 1..Len(cmds) :
          /\ cmds[i].cmd = "subscribe"
          /\ cmds[i].id = subs[s].subscriptionId
          /\ cmds[i].channelId = subs[s].channel.id

\* C5 as claimed: once subscribe(topic) has obtained subscription id s,
\* every frame with subscriptionId s is decoded and emitted exactly once
\* under topic and a frame with any other subscriptionId is never emitted
\* under topic; the transport subscribe is issued only for the id of an
\* advertised channel named topic.
C5_EveryFrameEmittedOnce ==
    [][/\ IsFrame =>
            \A s \in 1..Len(subs) :
                subs[s].subscriptionId # 0 =>
                    IF subs[s].subscriptionId = lastEvent'.id
                    THEN Cardinality(NewEmissionsUnder(subs[s].topic)) = 1
                    ELSE NewEmissionsUnder(subs[s].topic) = {}
       /\ \A s \in 1..Len(subs') :
            subs'[s].subscriptionId # 0 => SubscribedToAdvertised(s)']_vars

\* Whether #getMessageReader returns a reader for the channel of subscribe s.
ReaderAvailable(s) ==
    \/ MapHas(messageReaders, ChannelCodecName(subs[s].channel))
    \/ ChannelSchemaIsString(subs[s].channel)

\* C5 (amended): while the listener of a subscribe(topic) with subscription
\* id s is attached, a frame with subscriptionId s is emitted exactly once
\* under topic, decoded by the reader of the channel's schema, if that
\* reader is cached or the schema text is a string, and not at all
\* otherwise; a frame is emitted under a topic only by an attached listener
\* of a subscribe to that topic whose subscription id it carries; nothing
\* but a frame causes an emission; the transport subscribe is issued only
\* for the id of an advertised channel named topic.
C5_FrameEmittedOnceWhileListening ==
    [][/\ IsFrame =>
            /\ \A s \in Listening :
                  subs[s].subscriptionId = lastEvent'.id =>
                      IF ReaderAvailable(s)
                      THEN \E i \in NewEmissions :
                              /\ NewEmissions = {i}
                              /\ emitted'[i].sub = s
                              /\ emitted'[i].value =
                                    [decodedBy |-> ChannelCodecName(subs[s].channel),
                                     bytes |-> lastEvent'.data]
                      ELSE NewEmissions = {} /\ Len(thrown') = Len(thrown) + 1
            /\ \A i \in NewEmissions :
                  /\ emitted'[i].sub \in Listening
                  /\ subs[emitted'[i].sub].subscriptionId = lastEvent'.id
                  /\ emitted'[i].key = subs[emitted'[i].sub].topic
       /\ ~IsFrame => NewEmissions = {}
       /\ \A s \in 1..Len(subs') :
            subs'[s].subscriptionId # 0 => SubscribedToAdvertised(s)']_vars

\* Two listeners are attached and a frame has been emitted.
C5_Witness == Len(messageListeners) >= 2 /\ Len(emitted) >= 1

\* The step delivers a serviceCallResponse event.
IsResponse == nEvents' = nEvents + 1 /\ lastEvent'.kind = "serviceCallResponse"

\* The calls whose response listener is attached.
Pending == {responseListeners[i] : i \in 1..Len(responseListeners)}

\* The calls whose failure listener is attached.
FailurePending == {failureListeners[i] : i \in 1..Len(failureListeners)}

\* The sendServiceCallRequest commands a call has caused.
RequestsOf(c) == {i \in 1..Len(requests) : requests[i].call = c}

\* The result envelopes a step adds under the id of call c.
NewResultsOf(c) ==
    {i \in (Len(results) + 1)..Len(results') : results'[i].key = calls[c].id}

\* C3: for a pending call of a non-introspection type that was sent with
\* (serviceId, callId), a serviceCallResponse carrying that pair causes
\* exactly one emission under the caller's id, with result true and the
\* payload decoded by the call's reader; a serviceCallResponse whose
\* serviceId or callId differs causes no emission under that id and leaves
\* both listeners of the call attached.
C3_ResponseMatchesPair ==
    [][IsResponse =>
          \A c \in Pending :
              calls[c].type \notin RosapiTypes =>
                  \E r \in RequestsOf(c) :
                      IF /\ requests[r].serviceId = lastEvent'.id
                         /\ requests[r].callId = lastEvent'.callId
                      THEN /\ \E i \in NewResultsOf(c) :
                                /\ NewResultsOf(c) = {i}
                                /\ results'[i].result = TRUE
                                /\ results'[i].values =
                                      ReadMessage(calls[c].reader, lastEvent'.data)
                           /\ c \notin Pending'
                      ELSE /\ NewResultsOf(c) = {}
                           /\ c \in Pending'
                           /\ (c \in FailurePending') = (c \in FailurePending)]_vars

\* A response was emitted for one call while another call, sent to the
\* same service, is still pending.
C3_Witness ==
    \E i \in 1..Len(results), c \in Pending :
        /\ results[i].tag = "response"
        /\ results[i].key # calls[c].id
        /\ calls[results[i].key].svc.id = calls[c].svc.id
        /\ calls[c].type \notin RosapiTypes

\* C4: at most one result envelope is emitted under the id of a call.
C4_AtMostOneResult ==
    \A i, j \in 1..Len(results) : results[i].key = results[j].key => i = j

\* Whether #getMessageWriter and #getMessageReader return the codecs of the
\* service of call c.
CodecsAvailable(c) ==
    /\ MapHas(messageWriters, calls[c].svc.type) \/ calls[c].svc.request = "text"
    /\ MapHas(messageReaders, calls[c].svc.type) \/ calls[c].svc.response = "text"

\* C9 as claimed: once no continuation is queued, every call of a
\* non-introspection type whose service has been advertised has issued
\* exactly one sendServiceCallRequest, and the callIds of successive
\* requests strictly increase.
C9_EveryCallRequestedOnce ==
    /\ mq = <<>> =>
          \A c \in 1..Len(calls) :
              (calls[c].type \notin RosapiTypes /\ calls[c].pc # "waiting")
                  => Cardinality(RequestsOf(c)) = 1
    /\ \A i, j \in 1..Len(requests) :
          i < j => requests[i].callId < requests[j].callId

\* C9 (amended): when the lookup of the service of a call has resolved, the
\* call issues exactly one sendServiceCallRequest, to the id of the service
\* found, if the request writer and the response reader are cached or their
\* schema texts are strings, and none otherwise ('schema not found'); no
\* other step issues a request, no call issues two, and the n-th request of
\* the session carries callId n - 1.
C9_OneRequestPerCompilableCall ==
    [][/\ \A c \in 1..Len(calls) :
            IF calls[c].pc = "continue" /\ calls'[c].pc # "continue"
            THEN IF CodecsAvailable(c)
                 THEN /\ Len(requests') = Len(requests) + 1
                      /\ requests'[Len(requests')].call = c
                      /\ requests'[Len(requests')].serviceId = calls[c].svc.id
                      /\ calls[c].svc.name = calls[c].service
                 ELSE /\ requests' = requests
                      /\ calls'[c].pc = "failed"
            ELSE RequestsOf(c)' = RequestsOf(c)
       /\ \A c \in 1..Len(calls') : Cardinality(RequestsOf(c)') <= 1
       /\ \A i \in 1..Len(requests') : requests'[i].callId = i - 1]_vars

\* Two calls have each issued their request.
C9_Witness ==
    \E i, j \in 1..Len(requests) :
        /\ requests[i].call # requests[j].call
        /\ requests[i].callId < requests[j].callId

\* The lookups of a name: one per #advertise and per #subscribe (a channel
\* name, by #getChannel) and per #callService (a service name, by
\* #getService).
Lookups ==
    ({"adv"} \X (1..Len(advs))) \cup ({"sub"} \X (1..Len(subs)))
        \cup ({"call"} \X (1..Len(calls)))

LookupKind(l) == IF l[1] = "call" THEN "service" ELSE "channel"

LookupPc(l) ==
    IF l[1] = "adv" THEN advs[l[2]].pc
    ELSE IF l[1] = "sub" THEN subs[l[2]].pc ELSE calls[l[2]].pc

LookupName(l) ==
    IF l[1] = "adv" THEN advs[l[2]].topic
    ELSE IF l[1] = "sub" THEN subs[l[2]].topic ELSE calls[l[2]].service

\* <<id, name>> of the entity a lookup resolved with.
LookupEntity(l) ==
    IF l[1] = "adv" THEN <<advs[l[2]].channel.id, advs[l[2]].channel.topic>>
    ELSE IF l[1] = "sub" THEN <<subs[l[2]].channel.id, subs[l[2]].channel.topic>>
    ELSE <<calls[l[2]].svc.id, calls[l[2]].svc.name>>

\* The resumptions of a lookup that are queued.
Resumptions(l) ==
    {i \in 1..Len(mq) :
        /\ mq[i].idx = l[2]
        /\ mq[i].kind = (IF l[1] = "adv" THEN "getChannelAdv"
                         ELSE IF l[1] = "sub" THEN "getChannelSub" ELSE "getService")}

\* <<kind, id, name>> of the entities the advertisement event of the step
\* contains; empty when the step is no advertisement event.
EventEntities ==
    IF nEvents' = nEvents + 1 /\ lastEvent'.kind = "advertise"
    THEN {<<"channel", lastEvent'.batch[i].id, lastEvent'.batch[i].topic>> :
             i \in 1..Len(lastEvent'.batch)}
    ELSE IF nEvents' = nEvents + 1 /\ lastEvent'.kind = "advertiseServices"
    THEN {<<"service", lastEvent'.batch[i].id, lastEvent'.batch[i].name>> :
             i \in 1..Len(lastEvent'.batch)}
    ELSE {}

WriterAvailable(a) ==
    \/ MapHas(messageWriters, ChannelCodecName(advs[a].channel))
    \/ ChannelSchemaIsString(advs[a].channel)

RetractedIds(kind) ==
    IF /\ nEvents' = nEvents + 1
       /\ lastEvent'.kind = (IF kind = "channel" THEN "unadvertise"
                             ELSE "unadvertiseServices")
    THEN {lastEvent'.batch[i] : i \in 1..Len(lastEvent'.batch)}
    ELSE {}

\* The step is a retraction event of the kind.
IsRetraction(kind) ==
    /\ nEvents' = nEvents + 1
    /\ lastEvent'.kind = (IF kind = "channel" THEN "unadvertise"
                          ELSE "unadvertiseServices")

\* C11: when the peer retracts the id of a channel (or service) it
\* advertises, the by-id index has no entry under the id and the by-name
\* index no entry under the name afterwards; a retraction event none of
\* whose ids is advertised leaves both indices of the kind unchanged.
C11_RetractionRemoves ==
    [][/\ \A x \in live :
            (x[1] = "channel" /\ x[2] \in RetractedIds("channel")) =>
                /\ ~MapHas(channelsById', x[2])
                /\ \A i \in 1..Len(channelsByName') : channelsByName'[i].topic # x[3]
       /\ \A x \in live :
            (x[1] = "service" /\ x[2] \in RetractedIds("service")) =>
                /\ ~MapHas(servicesById', x[2])
                /\ \A i \in 1..Len(servicesByName') : servicesByName'[i].name # x[3]
       /\ (/\ IsRetraction("channel")
           /\ \A x \in live : x[1] = "channel" => x[2] \notin RetractedIds("channel"))
             => channelsById' = channelsById /\ channelsByName' = channelsByName
       /\ (/\ IsRetraction("service")
           /\ \A x \in live : x[1] = "service" => x[2] \notin RetractedIds("service"))
             => servicesById' = servicesById /\ servicesByName' = servicesByName]_vars

\* The peer advertised channels and then retracted them all, and after
\* that retracted an id once more.
C11_Witness ==
    /\ nEvents = 3
    /\ advertisedChannels # {}
    /\ lastEvent.kind = "unadvertise"
    /\ channelsById = <<>> /\ channelsByName = <<>>
    /\ live = {}

\* A cache keeps every entry it holds, stores an instance under the name
\* it was compiled for, and gains at most one entry in a step.
CacheKeeps(cache, next) ==
    /\ \A n \in DOMAIN cache : MapHas(next, n) /\ next[n] = cache[n]
    /\ \A n \in DOMAIN next : next[n].schemaName = n
    /\ Cardinality(DOMAIN next) <= Cardinality(DOMAIN cache) + 1

\* C12: an entry of the reader (writer) cache is never compiled again nor
\* replaced, so each name has one instance; every request that succeeds
\* returns the instance the cache holds under the name: the writer an
\* advertise resolved with, the reader a call keeps for its response, the
\* codec that encoded a request or decoded an emitted frame; and the
\* request that raises 'schema not found' leaves its cache as it was.
C12_CompiledOncePerName ==
    [][/\ CacheKeeps(messageReaders, messageReaders')
       /\ CacheKeeps(messageWriters, messageWriters')
       /\ \A a \in 1..Len(advs') :
            advs'[a].pc = "resolved" =>
                /\ MapHas(messageWriters', ChannelCodecName(advs'[a].channel))
                /\ advs'[a].writer = messageWriters'[ChannelCodecName(advs'[a].channel)]
       /\ \A c \in 1..Len(calls') :
            calls'[c].pc = "sent" =>
                /\ MapHas(messageReaders', calls'[c].svc.type)
                /\ calls'[c].reader = messageReaders'[calls'[c].svc.type]
                /\ MapHas(messageWriters', calls'[c].svc.type)
       /\ \A i \in (Len(requests) + 1)..Len(requests') :
            requests'[i].data.encodedBy = calls[requests'[i].call].svc.type
       /\ \A i \in NewEmissions :
            /\ MapHas(messageReaders', emitted'[i].value.decodedBy)
            /\ emitted'[i].value.decodedBy =
                  ChannelCodecName(subs[emitted'[i].sub].channel)
       /\ Len(thrown') > Len(thrown) =>
            LET t == thrown'[Len(thrown')]
            IN /\ t.verb = "advertise" => messageWriters' = messageWriters
               /\ t.verb = "subscribe" => messageReaders' = messageReaders
               /\ t.verb = "call_service" =>
                     /\ messageReaders' = messageReaders
                     /\ (/\ ~MapHas(messageWriters, calls[t.idx].svc.type)
                         /\ calls[t.idx].svc.request # "text")
                           => messageWriters' = messageWriters]_vars

\* Two advertise calls have requested the writer of one schema name and
\* hold the same instance.
C12_Witness ==
    \E a1, a2 \in 1..Len(advs) :
        /\ a1 # a2
        /\ advs[a1].pc = "resolved" /\ advs[a2].pc = "resolved"
        /\ ChannelCodecName(advs[a1].channel) = ChannelCodecName(advs[a2].channel)
        /\ advs[a1].writer = advs[a2].writer

\* The names of the channels the peer advertises: advertised and not
\* retracted since.
LiveTopics == {x[3] : x \in {y \in live : y[1] = "channel"}}

\* C13: a list-topics call emits in the step of the call, under the
\* caller's id, one result with result true whose topics are, without
\* repetition, exactly the names of the channels the peer advertises, and
\* whose types[i] is the schema name of a channel the peer advertises
\* under the name topics[i].
C13_TopicsAreAdvertised ==
    [][\A c \in (Len(calls) + 1)..Len(calls') :
          calls'[c].type = "rosapi/Topics" =>
              /\ Len(results') = Len(results) + 1
              /\ LET r == results'[Len(results')]
                 IN /\ r.key = calls'[c].id
                    /\ r.result = TRUE
                    /\ {r.values.topics[i] : i \in 1..Len(r.values.topics)} = LiveTopics
                    /\ Len(r.values.topics) = Cardinality(LiveTopics)
                    /\ Len(r.values.types) = Len(r.values.topics)
                    /\ \A i \in 1..Len(r.values.topics) :
                          \E ch \in advertisedChannels :
                              /\ <<"channel", ch.id, ch.topic>> \in live
                              /\ ch.topic = r.values.topics[i]
                              /\ ch.schemaName = r.values.types[i]]_vars

\* The step delivers a connectionGraphUpdate event.
IsGraphUpdate == nEvents' = nEvents + 1 /\ lastEvent'.kind = "connectionGraphUpdate"

\* The list-services calls whose listener is attached.
GraphPending == {graphListeners[i] : i \in 1..Len(graphListeners)}

\* The commands of one kind issued to the client so far.
CmdCount(kind) == Cardinality({i \in 1..Len(cmds) : cmds[i].cmd = kind})

\* C14: a list-services call subscribes to the connection graph once and
\* attaches its listener; the first connectionGraphUpdate after it makes
\* every pending call unsubscribe from the graph once, detach its listener
\* and emit one result under its id, with result true and the names of the
\* event's advertised services in order; the event emits nothing under the
\* id of a call that is not pending, and no other step emits.
C14_ServicesEmittedOnce ==
    [][/\ \A c \in (Len(calls) + 1)..Len(calls') :
            calls'[c].type = "rosapi/Services" =>
                /\ CmdCount("subscribeConnectionGraph")' =
                      CmdCount("subscribeConnectionGraph") + 1
                /\ c \in GraphPending'
                /\ results' = results
       /\ IsGraphUpdate =>
            /\ \A c \in 1..Len(calls) :
                  IF c \in GraphPending
                  THEN \E i \in NewResultsOf(c) :
                          /\ NewResultsOf(c) = {i}
                          /\ results'[i].result = TRUE
                          /\ results'[i].values =
                                [k \in 1..Len(lastEvent'.batch) |->
                                    lastEvent'.batch[k].name]
                  ELSE NewResultsOf(c) = {}
            /\ GraphPending' = {}
            /\ CmdCount("unsubscribeConnectionGraph")' =
                  CmdCount("unsubscribeConnectionGraph") + Cardinality(GraphPending)
            /\ Len(results') = Len(results) + Cardinality(GraphPending)
       /\ (~IsGraphUpdate /\ nEvents' = nEvents + 1) => results' = results]_vars

\* Two list-services calls were answered by the first update, and a later
\* update has been delivered.
C14_Witness ==
    /\ nEvents = 2
    /\ lastEvent.kind = "connectionGraphUpdate"
    /\ Len(results) = 2
    /\ results[1].event = 1 /\ results[2].event = 1
    /\ results[1].key # results[2].key

\* A parameter name with its separator, the first colon, turned into '.'.
SeparatorToDot(name) ==
    LET colons == {i \in 1..Len(name) : name[i] = ":"}
    IN [i \in 1..Len(name) |->
           IF i \in colons /\ \A j \in colons : i <= j THEN "." ELSE name[i]]

\* The step delivers a parameterValues event.
IsParameterValues == nEvents' = nEvents + 1 /\ lastEvent'.kind = "parameterValues"

\* The calls whose parameterValues listener is attached.
ParamPending == {parameterListeners[i] : i \in 1..Len(parameterListeners)}

\* C15: a get-param call issues one getParameters for its name with the
\* separator turned into '.', tagged with the caller's id, attaches its
\* listener and emits nothing yet.  A parameterValues event whose id is the
\* caller's id and whose parameter bears the converted name makes a pending
\* call emit one result under its id, with result true and the JSON text
\* of the event's value, and detach its listener; any other parameterValues
\* event emits nothing under its id and leaves its listener attached.
C15_GetParamEmitsOnce ==
    [][/\ \A c \in (Len(calls) + 1)..Len(calls') :
            calls'[c].type = "rosapi/GetParam" =>
                /\ paramCmds' = Append(paramCmds,
                      [cmd |-> "getParameters",
                       name |-> SeparatorToDot(calls'[c].args.name),
                       value |-> NoJsonText, id |-> calls'[c].id])
                /\ c \in ParamPending'
                /\ results' = results
       /\ IsParameterValues =>
            \A c \in 1..Len(calls) :
                calls[c].type = "rosapi/GetParam" =>
                    IF /\ c \in ParamPending
                       /\ lastEvent'.id = calls[c].id
                       /\ lastEvent'.batch # <<>>
                       /\ lastEvent'.batch[1].name = SeparatorToDot(calls[c].args.name)
                    THEN /\ \E i \in NewResultsOf(c) :
                              /\ NewResultsOf(c) = {i}
                              /\ results'[i].result = TRUE
                              /\ results'[i].tag = "value"
                              /\ results'[i].values =
                                    JsonStringify(lastEvent'.batch[1].value)
                         /\ c \notin ParamPending'
                    ELSE /\ NewResultsOf(c) = {}
                         /\ (c \in ParamPending') = (c \in ParamPending)
       /\ \A c \in 1..Len(calls') :
            Cardinality({i \in 1..Len(results') : results'[i].key = calls'[c].id}) <= 1]_vars

\* A get-param call of a name with a colon has emitted the value of the
\* second parameterValues event, and another call is still pending.
C15_Witness ==
    /\ \E i \in 1..Len(results) :
          /\ results[i].tag = "value"
          /\ results[i].event = 2
          /\ \E k \in 1..Len(calls[results[i].key].args.name) :
                calls[results[i].key].args.name[k] = ":"
    /\ ParamPending # {}


\* C16: unsubscribing a topic twice in a row is safe. The first call, for
\* a registered topic, issues the transport unsubscribe for the stored
\* subscription id, detaches the message listener and removes the
\* registration, raising nothing; a call that directly follows an
\* unsubscribe of the same topic raises nothing, issues no transport
\* command and leaves the state of the session as it was.
C16_UnsubscribeTwice ==
    [][\A t \in Topics :
          /\ (/\ justUnsubscribed'.topic = t
              /\ justUnsubscribed'.times = 1
              /\ t \in DOMAIN unsubscribeByName)
                => /\ cmds' = Append(cmds, Cmd("unsubscribe",
                                               subs[unsubscribeByName[t]].subscriptionId,
                                               0, "", ""))
                   /\ t \notin DOMAIN unsubscribeByName'
                   /\ \A i \in 1..Len(messageListeners') :
                         messageListeners'[i] # unsubscribeByName[t]
                   /\ thrown' = thrown
          /\ (/\ justUnsubscribed'.topic = t
              /\ justUnsubscribed'.times >= 2)
                => UNCHANGED <<svcVars, dirVars, codecVars, pubVars, subVars,
                               advertiseListeners, mq, cmds, sendMessages, thrown>>]_vars

\* A subscription was opened and unsubscribed, and the unsubscribe of its
\* topic was called once more directly after.
C16_Witness ==
    /\ justUnsubscribed.times = 2
    /\ Len(subs) = 1
    /\ subs[1].topic = justUnsubscribed.topic
    /\ subs[1].subscriptionId # 0
    /\ \E i \in 1..Len(cmds) :
          cmds[i].cmd = "unsubscribe" /\ cmds[i].id = subs[1].subscriptionId


\* The step delivers an open, close or error event of the transport.
IsLifecycleEvent ==
    nEvents' = nEvents + 1 /\ lastEvent'.kind \in {"open", "close", "error"}

\* C17: every transport open, close and error event is forwarded as
\* exactly one 'connection', 'close' or 'error' emission, appended in the
\* order the events occur, and no other step emits or drops one; a close or
\* error event tears nothing down: the directory, the registered publishers
\* and subscriptions, the pending listeners and the waiting continuations
\* stay as they were.
C17_LifecycleForwarded ==
    [][/\ IsLifecycleEvent
            => lifecycle' = Append(lifecycle,
                  [name |-> IF lastEvent'.kind = "open" THEN "connection"
                            ELSE lastEvent'.kind,
                   event |-> lastEvent'.data])
       /\ ~IsLifecycleEvent => lifecycle' = lifecycle
       /\ (IsLifecycleEvent /\ lastEvent'.kind \in {"close", "error"})
            => UNCHANGED <<dirVars, codecVars, pubVars, subVars, svcVars,
                           advertiseListeners, mq, cmds, thrown>>]_vars

\* The connection opened, reported an error and closed while a publisher
\* and a subscription were registered.
C17_Witness ==
    /\ Len(lifecycle) = 3
    /\ lifecycle[1].name = "connection"
    /\ lifecycle[2] = [name |-> "error", event |-> "e1"]
    /\ lifecycle[3] = [name |-> "close", event |-> "e2"]
    /\ ~isConnected
    /\ DOMAIN unadvertiseByName # {}
    /\ advertiseListeners # <<>>


\* The calls whose matching serviceCallResponse or serviceCallFailure has
\* been processed: a result of the service was emitted under their id.
Answered ==
    {c \in 1..Len(calls) :
        \E i \in 1..Len(results) :
            results[i].key = calls[c].id /\ results[i].tag \in {"response", "failure"}}

\* C18: once the matching response or failure of a call has been
\* processed, neither its success listener nor its failure listener is
\* attached: the attached listeners belong to calls that await a result.
C18_NoListenerAfterResult ==
    \A c \in Answered : c \notin Pending /\ c \notin FailurePending


\* C19: a topic has at most one live subscription: at most one transport
\* subscription issued for it and not unsubscribed since, and at most one
\* message listener attached for it.
C19_OneLiveSubscriptionPerTopic ==
    \A t \in Topics :
        /\ Cardinality(OpenSubscriptions(t)) <= 1
        /\ Cardinality({s \in Listening : subs[s].topic = t}) <= 1


\* C20: the by-id and by-name channel indices hold the same set of
\* channels, and a name lookup finds a channel exactly when the peer
\* advertises one under the name, the channel found being one the peer
\* advertises now.
C20_IndicesAgree ==
    /\ {channelsById[i] : i \in DOMAIN channelsById}
          = {channelsByName[i] : i \in 1..Len(channelsByName)}
    /\ \A name \in Topics :
          LET ch == NameGet(channelsByName, name)
          IN /\ (ch # NoChannel) = (name \in LiveTopics)
             /\ ch # NoChannel => <<"channel", ch.id, ch.topic>> \in live

=============================================================================
